---- MODULE Spec2Model ----
(***************************************************************************)
(* Model of million-points.cpp: point generation, pipeline construction,   *)
(* the frame loop with its GLFW callbacks, and the geometry shader that    *)
(* expands every point into a polygon.                                     *)
(*                                                                         *)
(* Spec      the host program (main and the callbacks).                    *)
(* FairSpec  the host program with the weak fairness of a sequential       *)
(*           thread: a statement that can execute eventually does, and     *)
(*           glfwPollEvents returns.                                       *)
(* SpecGeom  one invocation of the geometry shader (one input point).      *)
(***************************************************************************)
EXTENDS Integers, Sequences, FiniteSets

(* ------------------------------ bounds -------------------------------- *)

\* The source generates n = 100000000 points (line 181); the model draws the
\* point count from 0..MaxPoints.
MaxPoints == 2

\* Polygon orders the geometry shader is run with: 1..MaxOrder.
MaxOrder == 8

(* ------------------------- program constants -------------------------- *)

InitialWidth == 640
InitialHeight == 480
WindowWidth == 1024
WindowHeight == 768
DefaultOrder == 8
EXIT_SUCCESS == 0
EXIT_FAILURE == 1

\* An abstraction of glm::vec2 values: 0 is the value-initialized vec2 that
\* vertices.resize(n) creates, 1 and 2 stand for sampled coordinates.
ZeroPoint == 0
PointValues == {1, 2}

\* Sizes a resize notification can carry.
Sizes == {<<640, 480>>, <<800, 600>>}
NoSize == <<0, 0>>

Keys == {"ESCAPE", "OTHER"}
KeyActions == {"PRESS", "RELEASE"}

VARIABLES
  pc,            \* position of main
  numPoints,     \* n of generate_vertices
  vertices,      \* the global vector<glm::vec2>
  i,             \* loop index of generate_vertices
  gWidth, gHeight, need_redraw,
  winSize,       \* size of the window / framebuffer (NoSize: no window)
  shouldClose,   \* the window's close flag
  gpuBuffer,     \* contents of the GL_ARRAY_BUFFER store
  uploadCount,   \* number of glBufferData calls
  linkStatus,    \* "none", "linked" or "failed": GL_LINK_STATUS of program
  stderrStage,   \* shader_type_str printed by die ("" when nothing printed)
  exitStatus,    \* status of the process once pc = "exited"
  viewport,      \* (width, height) of the last glViewport
  resolution,    \* value of the Resolution uniform (last glUniform2i)
  drawProgram,   \* link status of the program the last glDrawArrays ran with
  drawsSinceSwap,\* glDrawArrays calls since the last glfwSwapBuffers
  swapBy,        \* who made the last glfwSwapBuffers: "none", "frame", "refresh"
  swapDraws,     \* the draw calls that presentation showed
  failure,       \* the operation that failed: "none", "glfwInit", "window", a stage
  lastNotified,  \* arguments of the last window_size_callback (NoSize: none)
  undrawn,       \* notified sizes no draw call has passed since
  writeLog,      \* indexes generate_vertices wrote, in order
  generated,     \* the buffer as generate_vertices left it
  gs_pc, gs_n, gs_res, gs_j, gs_out, gs_strips   \* the geometry shader

progVars == <<pc, numPoints, vertices, i, gWidth, gHeight, need_redraw, winSize,
              shouldClose, gpuBuffer, uploadCount, linkStatus, stderrStage,
              exitStatus, viewport, resolution, drawProgram, drawsSinceSwap,
              swapBy, swapDraws, failure, lastNotified, undrawn, writeLog,
              generated>>

gsVars == <<gs_pc, gs_n, gs_res, gs_j, gs_out, gs_strips>>

vars == <<progVars, gsVars>>

(* ------------------------------ Init ---------------------------------- *)

ProgInit(n) ==
  /\ pc = "generate"
  /\ numPoints = n
  /\ vertices = <<>>
  /\ i = 0
  /\ gWidth = InitialWidth
  /\ gHeight = InitialHeight
  /\ need_redraw = TRUE
  /\ winSize = NoSize
  /\ shouldClose = FALSE
  /\ gpuBuffer = <<>>
  /\ uploadCount = 0
  /\ linkStatus = "none"
  /\ stderrStage = ""
  /\ exitStatus = 0
  /\ viewport = NoSize
  /\ resolution = NoSize
  /\ drawProgram = "none"
  /\ drawsSinceSwap = 0
  /\ swapBy = "none"
  /\ swapDraws = 0
  /\ failure = "none"
  /\ lastNotified = NoSize
  /\ undrawn = {}
  /\ writeLog = <<>>
  /\ generated = <<>>

GsIdle ==
  /\ gs_pc = "idle"
  /\ gs_n = DefaultOrder
  /\ gs_res = NoSize
  /\ gs_j = 0
  /\ gs_out = <<>>
  /\ gs_strips = <<>>

Init == (\E n \in 0..MaxPoints : ProgInit(n)) /\ GsIdle

(* ------------------------- generate_vertices -------------------------- *)

\* int n = ...; vertices.resize(n);
GenerateResize ==
  /\ pc = "generate"
  /\ vertices' = [k \in 1..numPoints |-> ZeroPoint]
  /\ i' = 0
  /\ pc' = "gen_loop"
  /\ UNCHANGED <<numPoints, gWidth, gHeight, need_redraw, winSize, shouldClose,
                 gpuBuffer, uploadCount, linkStatus, stderrStage, exitStatus,
                 viewport, resolution, drawProgram, drawsSinceSwap, swapBy,
                 swapDraws, failure, lastNotified, undrawn, writeLog, generated>>
  /\ UNCHANGED gsVars

\* GenerateStep with the index advanced by two: odd indexes are never written.
GenerateStepMissesOdd ==
  /\ pc = "gen_loop"
  /\ i < Len(vertices)
  /\ \E p \in PointValues : vertices' = [vertices EXCEPT ![i + 1] = p]
  /\ writeLog' = Append(writeLog, i)
  /\ i' = i + 2
  /\ UNCHANGED <<pc, numPoints, gWidth, gHeight, need_redraw, winSize, shouldClose,
                 gpuBuffer, uploadCount, linkStatus, stderrStage, exitStatus,
                 viewport, resolution, drawProgram, drawsSinceSwap, swapBy,
                 swapDraws, failure, lastNotified, undrawn, generated>>
  /\ UNCHANGED gsVars

\* One iteration of for (int i=0; i<(int)vertices.size(); i++): the sampled
\* point is stored, vertices[i] = {x,y}.
GenerateStep ==
  /\ pc = "gen_loop"
  /\ i < Len(vertices)
  /\ \E p \in PointValues : vertices' = [vertices EXCEPT ![i + 1] = p]
  /\ writeLog' = Append(writeLog, i)
  /\ i' = i + 1
  /\ UNCHANGED <<pc, numPoints, gWidth, gHeight, need_redraw, winSize, shouldClose,
                 gpuBuffer, uploadCount, linkStatus, stderrStage, exitStatus,
                 viewport, resolution, drawProgram, drawsSinceSwap, swapBy,
                 swapDraws, failure, lastNotified, undrawn, generated>>
  /\ UNCHANGED gsVars

\* The loop ends; generate_vertices returns to main.
GenerateDone ==
  /\ pc = "gen_loop"
  /\ ~(i < Len(vertices))
  /\ generated' = vertices
  /\ pc' = "glfwInit"
  /\ UNCHANGED <<numPoints, vertices, i, gWidth, gHeight, need_redraw, winSize,
                 shouldClose, gpuBuffer, uploadCount, linkStatus, stderrStage,
                 exitStatus, viewport, resolution, drawProgram, drawsSinceSwap,
                 swapBy, swapDraws, failure, lastNotified, undrawn, writeLog>>
  /\ UNCHANGED gsVars

(* ------------------------------- exit --------------------------------- *)

\* exit(code): the parent sees the low 8 bits of the status.
ExitWith(code) ==
  /\ pc' = "exited"
  /\ exitStatus' = code % 256

\* die with exit(0) in place of exit(-1).
die_status0(stage) ==
  /\ stderrStage' = stage
  /\ ExitWith(0)

\* die: vfprintf(stderr, fmt, ...), then exit(-1). stage is the %s that
\* compile_shader passes as shader_type_str.
die(stage) ==
  /\ stderrStage' = stage
  /\ ExitWith(-1)

(* ------------------------ main: initialization ------------------------ *)

\* if (!glfwInit()) exit(EXIT_FAILURE);
GlfwInit ==
  /\ pc = "glfwInit"
  /\ \E ok \in BOOLEAN :
       IF ok
         THEN /\ pc' = "createWindow"
              /\ UNCHANGED <<exitStatus, failure>>
         ELSE /\ failure' = "glfwInit"
              /\ ExitWith(EXIT_FAILURE)
  /\ UNCHANGED <<numPoints, vertices, i, gWidth, gHeight, need_redraw, winSize,
                 shouldClose, gpuBuffer, uploadCount, linkStatus, stderrStage,
                 viewport, resolution, drawProgram, drawsSinceSwap, swapBy,
                 swapDraws, lastNotified, undrawn, writeLog, generated>>
  /\ UNCHANGED gsVars

\* window = glfwCreateWindow(1024, 768, ...); if (!window) { glfwTerminate();
\* exit(EXIT_FAILURE); } then the callbacks are registered.
CreateWindow ==
  /\ pc = "createWindow"
  /\ \E ok \in BOOLEAN :
       IF ok
         THEN /\ winSize' = <<WindowWidth, WindowHeight>>
              /\ pc' = "upload"
              /\ UNCHANGED <<exitStatus, failure>>
         ELSE /\ failure' = "window"
              /\ ExitWith(EXIT_FAILURE)
              /\ UNCHANGED winSize
  /\ UNCHANGED <<numPoints, vertices, i, gWidth, gHeight, need_redraw,
                 shouldClose, gpuBuffer, uploadCount, linkStatus, stderrStage,
                 viewport, resolution, drawProgram, drawsSinceSwap, swapBy,
                 swapDraws, lastNotified, undrawn, writeLog, generated>>
  /\ UNCHANGED gsVars

\* glGenBuffers, glBindBuffer, glBufferData(..., vertices.data(), GL_STATIC_DRAW)
glBufferData ==
  /\ gpuBuffer' = vertices
  /\ uploadCount' = uploadCount + 1

Upload ==
  /\ pc = "upload"
  /\ glBufferData
  /\ pc' = "compile_vertex"
  /\ UNCHANGED <<numPoints, vertices, i, gWidth, gHeight, need_redraw, winSize,
                 shouldClose, linkStatus, stderrStage, exitStatus, viewport,
                 resolution, drawProgram, drawsSinceSwap, swapBy, swapDraws,
                 failure, lastNotified, undrawn, writeLog, generated>>
  /\ UNCHANGED gsVars

(* -------------------------- variable groups --------------------------- *)

hostData == <<numPoints, vertices, i, writeLog, generated>>
globals == <<gWidth, gHeight, need_redraw>>
glState == <<gpuBuffer, uploadCount, viewport, resolution, drawProgram>>
presentation == <<drawsSinceSwap, swapBy, swapDraws>>
notifications == <<lastNotified, undrawn>>
process == <<stderrStage, exitStatus, failure>>

(* --------------------------- compile_shader --------------------------- *)

GL_VERTEX_SHADER == "GL_VERTEX_SHADER"
GL_GEOMETRY_SHADER == "GL_GEOMETRY_SHADER"
GL_FRAGMENT_SHADER == "GL_FRAGMENT_SHADER"

\* The switch of compile_shader that names the shader type in the diagnostic.
shader_type_str(shader_type) ==
  CASE shader_type = GL_VERTEX_SHADER -> "vertex"
    [] shader_type = GL_FRAGMENT_SHADER -> "fragment"
    [] OTHER -> "unknown type"

\* glCreateShader, glShaderSource, glCompileShader, glGetShaderiv(COMPILE_STATUS);
\* on GL_FALSE: die("%s: %s\n", shader_type_str, errorLog). next is where main
\* continues when the shader is returned.
compile_shader(shader_type, next) ==
  \E isCompiled \in BOOLEAN :
    IF isCompiled
      THEN /\ pc' = next
           /\ UNCHANGED process
      ELSE /\ failure' = shader_type
           /\ die(shader_type_str(shader_type))

CompileVertex ==
  /\ pc = "compile_vertex"
  /\ compile_shader(GL_VERTEX_SHADER, "compile_geometry")
  /\ UNCHANGED <<hostData, globals, glState, presentation, notifications,
                 winSize, shouldClose, linkStatus>>
  /\ UNCHANGED gsVars

CompileGeometry ==
  /\ pc = "compile_geometry"
  /\ compile_shader(GL_GEOMETRY_SHADER, "compile_fragment")
  /\ UNCHANGED <<hostData, globals, glState, presentation, notifications,
                 winSize, shouldClose, linkStatus>>
  /\ UNCHANGED gsVars

CompileFragment ==
  /\ pc = "compile_fragment"
  /\ compile_shader(GL_FRAGMENT_SHADER, "link")
  /\ UNCHANGED <<hostData, globals, glState, presentation, notifications,
                 winSize, shouldClose, linkStatus>>
  /\ UNCHANGED gsVars

\* glCreateProgram, glAttachShader x3, glLinkProgram, then the uniform and
\* attribute locations are read and the vertex attribute is set up. The link
\* status is never read: main goes on to the loop whatever glLinkProgram did.
LinkProgram ==
  /\ pc = "link"
  /\ \E linked \in BOOLEAN :
       linkStatus' = IF linked THEN "linked" ELSE "failed"
  /\ pc' = "loop_test"
  /\ UNCHANGED <<hostData, globals, glState, presentation, notifications,
                 process, winSize, shouldClose>>
  /\ UNCHANGED gsVars

(* --------------------------- the frame loop --------------------------- *)

\* while (!glfwWindowShouldClose(window)) is false: glfwDestroyWindow,
\* glfwTerminate, exit(EXIT_SUCCESS).
LoopExit ==
  /\ pc = "loop_test"
  /\ shouldClose
  /\ ExitWith(EXIT_SUCCESS)
  /\ UNCHANGED <<hostData, globals, glState, presentation, notifications,
                 stderrStage, failure, winSize, shouldClose, linkStatus>>
  /\ UNCHANGED gsVars

\* The loop condition holds; if (need_redraw) selects the frame, else
\* usleep(1000) and the loop body goes straight to glfwPollEvents.
LoopEnter ==
  /\ pc = "loop_test"
  /\ ~shouldClose
  /\ pc' = IF need_redraw THEN "render" ELSE "poll"
  /\ UNCHANGED <<hostData, globals, glState, presentation, notifications,
                 process, winSize, shouldClose, linkStatus>>
  /\ UNCHANGED gsVars

\* RenderFrame with a glBufferData of the vertices in every frame.
RenderFrameReuploads ==
  /\ pc = "render"
  /\ glBufferData
  /\ viewport' = winSize
  /\ resolution' = <<gWidth, gHeight>>
  /\ drawProgram' = linkStatus
  /\ drawsSinceSwap' = drawsSinceSwap + 1
  /\ undrawn' = undrawn \ {<<gWidth, gHeight>>}
  /\ pc' = "present"
  /\ UNCHANGED <<hostData, globals, process, winSize, shouldClose, linkStatus,
                 swapBy, swapDraws, lastNotified>>
  /\ UNCHANGED gsVars

\* glfwGetFramebufferSize, glViewport, glClear, the MVP matrix, glUseProgram,
\* glUniformMatrix4fv, glUniform2i(res_location, gWidth, gHeight),
\* glDrawArrays(GL_POINTS, 0, vertices.size()). The framebuffer has the size
\* of the window (no content scaling).
RenderFrame ==
  /\ pc = "render"
  /\ viewport' = winSize
  /\ resolution' = <<gWidth, gHeight>>
  /\ drawProgram' = linkStatus
  /\ drawsSinceSwap' = drawsSinceSwap + 1
  /\ undrawn' = undrawn \ {<<gWidth, gHeight>>}
  /\ pc' = "present"
  /\ UNCHANGED <<hostData, globals, process, winSize, shouldClose, linkStatus,
                 gpuBuffer, uploadCount, swapBy, swapDraws, lastNotified>>
  /\ UNCHANGED gsVars

\* glfwSwapBuffers(window) by who: the presentation shows the draw calls
\* issued since the previous one.
glfwSwapBuffers(who) ==
  /\ swapBy' = who
  /\ swapDraws' = drawsSinceSwap
  /\ drawsSinceSwap' = 0

\* PresentFrame without its glfwSwapBuffers.
PresentFrameNoSwap ==
  /\ pc = "present"
  /\ need_redraw' = TRUE
  /\ pc' = "poll"
  /\ UNCHANGED <<hostData, gWidth, gHeight, glState, notifications, process,
                 winSize, shouldClose, linkStatus, presentation>>
  /\ UNCHANGED gsVars

\* glfwSwapBuffers(window); the FPS counter; need_redraw = true.
PresentFrame ==
  /\ pc = "present"
  /\ glfwSwapBuffers("frame")
  /\ need_redraw' = TRUE
  /\ pc' = "poll"
  /\ UNCHANGED <<hostData, gWidth, gHeight, glState, notifications, process,
                 winSize, shouldClose, linkStatus>>
  /\ UNCHANGED gsVars

(* ------------- glfwPollEvents: the callbacks it dispatches ------------ *)

\* key_callback: if (key == GLFW_KEY_ESCAPE && action == GLFW_PRESS)
\*   glfwSetWindowShouldClose(window, GLFW_TRUE);
key_callback(key, action) ==
  shouldClose' = IF key = "ESCAPE" /\ action = "PRESS" THEN TRUE ELSE shouldClose

\* A key event is dispatched. The close flag is the only thing the loop
\* condition reads, whichever way it came to be set.
KeyEvent ==
  /\ pc = "poll"
  /\ \E key \in Keys, action \in KeyActions : key_callback(key, action)
  /\ UNCHANGED <<pc, hostData, globals, glState, presentation, notifications,
                 process, winSize, linkStatus>>
  /\ UNCHANGED gsVars

\* window_size_callback with width and height exchanged.
window_size_callback_swapped(width, height) ==
  /\ gWidth' = height
  /\ gHeight' = width
  /\ need_redraw' = TRUE

\* window_size_callback: gWidth = width; gHeight = height; need_redraw = true;
window_size_callback(width, height) ==
  /\ gWidth' = width
  /\ gHeight' = height
  /\ need_redraw' = TRUE

\* The window is resized to size and GLFW notifies the program.
WindowSizeEvent ==
  /\ pc = "poll"
  /\ \E size \in Sizes :
       /\ winSize' = size
       /\ window_size_callback(size[1], size[2])
       /\ lastNotified' = size
       /\ undrawn' = undrawn \cup {size}
  /\ UNCHANGED <<pc, hostData, glState, presentation, process, shouldClose,
                 linkStatus>>
  /\ UNCHANGED gsVars

\* window_refresh_callback: glfwSwapBuffers(window); need_redraw = true;
window_refresh_callback ==
  /\ glfwSwapBuffers("refresh")
  /\ need_redraw' = TRUE

WindowRefreshEvent ==
  /\ pc = "poll"
  /\ window_refresh_callback
  /\ UNCHANGED <<pc, hostData, gWidth, gHeight, glState, notifications, process,
                 winSize, shouldClose, linkStatus>>
  /\ UNCHANGED gsVars

\* glfwPollEvents returns.
PollReturn ==
  /\ pc = "poll"
  /\ pc' = "loop_test"
  /\ UNCHANGED <<hostData, globals, glState, presentation, notifications,
                 process, winSize, shouldClose, linkStatus>>
  /\ UNCHANGED gsVars

MainStep ==
  \/ GenerateResize \/ GenerateStep \/ GenerateDone
  \/ GlfwInit \/ CreateWindow \/ Upload
  \/ CompileVertex \/ CompileGeometry \/ CompileFragment \/ LinkProgram
  \/ LoopExit \/ LoopEnter \/ RenderFrame \/ PresentFrame \/ PollReturn

Next ==
  \/ GenerateResize \/ GenerateStep \/ GenerateDone
  \/ GlfwInit \/ CreateWindow \/ Upload
  \/ CompileVertex \/ CompileGeometry \/ CompileFragment \/ LinkProgram
  \/ LoopExit \/ LoopEnter \/ RenderFrame \/ PresentFrame
  \/ KeyEvent \/ WindowSizeEvent \/ WindowRefreshEvent \/ PollReturn

Spec == Init /\ [][Next]_vars

\* main is one sequential thread: whatever statement it is at executes, and
\* glfwPollEvents returns after dispatching the events that have arrived.
FairSpec == Spec /\ WF_vars(MainStep)

(* ------------------------ the geometry shader ------------------------- *)

\* One invocation of geom_shader_text's main for one input point
\* (layout(points) in: gl_in.length() is 1, so the loop over i runs once).
\* A vertex is [kind, j, ang, xs]: kind "center" is gl_in[i].gl_Position, kind
\* "rim" is gl_in[i].gl_Position + vec4(d*cos(theta)*xs, d*sin(theta), 0, 0)
\* with theta = j*(2*M_PI/n); j is the iteration that emitted it. sin and cos
\* have period 2*M_PI, so the offset is decided by ang = j mod n (d = 0.01 is
\* not zero, so no rim vertex lies on the center). The emitted counts stay
\* below max_vertices=96 for every order up to 62.

Resolutions == Sizes \cup {<<InitialWidth, InitialHeight>>}

\* float xs = 1.0*Resolution.y/Resolution.x, kept as the pair (y, x)
xs(res) == <<res[2], res[1]>>

\* for (int j=0; j<n+2; j++)
LoopCondition(j, n) == j < n + 2

\* EmitsCenter without the test: a center vertex in every iteration.
EmitsCenterAlways(j) == TRUE

\* if (j%2==0)
EmitsCenter(j) == j % 2 = 0

CenterVertex(j) == [kind |-> "center", j |-> j, ang |-> 0, xs |-> <<0, 0>>]

\* float theta = j*(2*M_PI/n); st = sin(theta); ct = cos(theta)
RimVertex(j, n, res) == [kind |-> "rim", j |-> j, ang |-> j % n, xs |-> xs(res)]

InitGeom ==
  /\ ProgInit(1)
  /\ gs_pc = "center"
  /\ gs_n \in 1..MaxOrder
  /\ gs_res \in Resolutions
  /\ gs_j = 0
  /\ gs_out = <<>>
  /\ gs_strips = <<>>

\* Top of the loop body: the center vertex on even j.
GsCenter ==
  /\ gs_pc = "center"
  /\ LoopCondition(gs_j, gs_n)
  /\ gs_out' = IF EmitsCenter(gs_j) THEN Append(gs_out, CenterVertex(gs_j))
                                    ELSE gs_out
  /\ gs_pc' = "rim"
  /\ UNCHANGED <<gs_n, gs_res, gs_j, gs_strips>>
  /\ UNCHANGED progVars

\* Rest of the loop body: the rim vertex at theta_j, then j++.
GsRim ==
  /\ gs_pc = "rim"
  /\ gs_out' = Append(gs_out, RimVertex(gs_j, gs_n, gs_res))
  /\ gs_j' = gs_j + 1
  /\ gs_pc' = "center"
  /\ UNCHANGED <<gs_n, gs_res, gs_strips>>
  /\ UNCHANGED progVars

\* The loop over j ends: EndPrimitive() closes the strip.
GsEndPrimitive ==
  /\ gs_pc = "center"
  /\ ~LoopCondition(gs_j, gs_n)
  /\ gs_strips' = Append(gs_strips, gs_out)
  /\ gs_out' = <<>>
  /\ gs_pc' = "done"
  /\ UNCHANGED <<gs_n, gs_res, gs_j>>
  /\ UNCHANGED progVars

NextGeom == GsCenter \/ GsRim \/ GsEndPrimitive

SpecGeom == InitGeom /\ [][NextGeom]_vars

\* The triangles of a triangle strip: vertices t, t+1, t+2 for every t.
Position(v) == IF v.kind = "center" THEN <<"center", 0>> ELSE <<"rim", v.ang>>

Triangle(strip, t) == {Position(strip[t + k]) : k \in 0..2}

\* The wedge (center, rim k, rim k+1) of an n-gon.
Wedge(k, n) == {<<"center", 0>>, <<"rim", k % n>>, <<"rim", (k + 1) % n>>}

Coverage(strip, k, n) ==
  Cardinality({t \in 1..(Len(strip) - 2) : Triangle(strip, t) = Wedge(k, n)})

IsRim(v) == v.kind = "rim"
IsCenter(v) == v.kind = "center"

RimSteps(strip) ==
  LET rims == SelectSeq(strip, IsRim) IN [k \in 1..Len(rims) |-> rims[k].j]

(* ------------------------------ claims -------------------------------- *)

StageName(shader_type) ==
  CASE shader_type = GL_VERTEX_SHADER -> "vertex"
    [] shader_type = GL_GEOMETRY_SHADER -> "geometry"
    [] shader_type = GL_FRAGMENT_SHADER -> "fragment"

\* C2 as stated: when the compilation of a stage fails, the diagnostic names
\* that stage ("vertex", "geometry" or "fragment"), the process ends with a
\* non-zero status, no program is linked and no frame is drawn.
C2_Original ==
  failure \in {GL_VERTEX_SHADER, GL_GEOMETRY_SHADER, GL_FRAGMENT_SHADER} =>
    /\ stderrStage = StageName(failure)
    /\ pc = "exited"
    /\ exitStatus # 0
    /\ linkStatus = "none"
    /\ drawProgram = "none"

\* C3 as stated: after a link failure the body of the render loop is never
\* entered and no draw call is issued with the program whose link failed.
C3_Original ==
  linkStatus = "failed" =>
    /\ pc \notin {"render", "present", "poll"}
    /\ drawProgram # "failed"

\* C4 as stated, in the form a finite run refutes: every notified size has
\* had a draw call passing it as Resolution by the time the process has ended.
C4_Original ==
  pc = "exited" => undrawn = {}

\* C4 amended: after a resize notification (gWidth, gHeight) is the notified
\* size until the next notification and need_redraw is set; every draw call
\* passes the (gWidth, gHeight) of the latest notification; and a notification
\* not yet drawn leads to a draw call passing its size, or one passing a later
\* notification's size, unless the close flag ends the loop first.
C4_Amended ==
  /\ [](lastNotified # NoSize =>
          /\ <<gWidth, gHeight>> = lastNotified
          /\ need_redraw)
  /\ [](pc = "present" =>
          /\ resolution = <<gWidth, gHeight>>
          /\ lastNotified \notin undrawn)
  /\ ((lastNotified \in undrawn) ~> (lastNotified \notin undrawn \/ pc = "exited"))

C4_Witness ==
  /\ pc = "present"
  /\ lastNotified = <<800, 600>>
  /\ resolution = <<800, 600>>
  /\ <<640, 480>> \in undrawn

\* C5: once the frame loop is reached the buffer has been uploaded exactly
\* once, and from the upload on neither the host buffer nor the uploaded
\* copy differs from the generated buffer, through frames and events.
C5_UploadOnce ==
  /\ uploadCount <= 1
  /\ pc \in {"compile_vertex", "compile_geometry", "compile_fragment", "link",
             "loop_test", "render", "present", "poll"} => uploadCount = 1
  /\ uploadCount = 1 => (vertices = generated /\ gpuBuffer = generated)
  /\ Len(vertices) = Len(generated) \/ pc \in {"generate", "gen_loop"}

C5_Witness ==
  /\ pc = "poll"
  /\ uploadCount = 1
  /\ swapBy = "refresh"
  /\ lastNotified # NoSize
  /\ Len(gpuBuffer) = 2

C7_Generate ==
  /\ pc # "generate" => Len(vertices) = numPoints
  /\ pc = "gen_loop" => writeLog = [k \in 1..i |-> k - 1]
  /\ pc \notin {"generate", "gen_loop"} =>
       /\ writeLog = [k \in 1..numPoints |-> k - 1]
       /\ \A k \in 1..numPoints : vertices[k] \in PointValues

C7_Witness ==
  /\ pc = "poll"
  /\ numPoints = 2
  /\ writeLog = <<0, 1>>
  /\ Len(vertices) = 2

\* C8 as stated: whenever a presentation (buffer swap) has been performed,
\* exactly one draw call was issued between it and the previous one.
C8_Original ==
  swapBy # "none" => swapDraws = 1

\* C8 amended: an iteration of the frame loop issues one draw call and then
\* presents once, so a presentation made by the frame loop shows exactly one
\* draw call; a presentation made by window_refresh_callback shows none.
C8_Amended ==
  /\ swapBy = "frame" => swapDraws = 1
  /\ swapBy = "refresh" => swapDraws = 0
  /\ pc = "present" => drawsSinceSwap = 1
  /\ pc \in {"loop_test", "render", "poll"} => drawsSinceSwap = 0

C8_Witness ==
  /\ pc = "poll"
  /\ swapBy = "frame"
  /\ swapDraws = 1
  /\ lastNotified # NoSize

\* C9 as stated: at every draw call the Resolution passed to the geometry
\* stage equals the (width, height) the same frame gave to glViewport.
C9_Original ==
  pc = "present" => resolution = viewport

\* C10 as stated, for the order the shader is built with: the strip starts
\* with the center, its rim vertices are those of j = 0..n in increasing
\* order, every triangle is the center with two consecutive rim vertices, and
\* each wedge (center, rim k, rim k+1), k in 0..n-1, is covered exactly once.
C10_Original ==
  (gs_pc = "done" /\ gs_n = DefaultOrder) =>
    LET strip == gs_strips[1] IN
      /\ IsCenter(strip[1])
      /\ RimSteps(strip) = [k \in 1..(gs_n + 1) |-> k - 1]
      /\ \A t \in 1..(Len(strip) - 2) :
           \E k \in 0..(gs_n - 1) : Triangle(strip, t) = Wedge(k, gs_n)
      /\ \A k \in 0..(gs_n - 1) : Coverage(strip, k, gs_n) = 1

====
